---- MODULE Spec2Model ----
(***************************************************************************)
(* Model of the image extractor (package image_extractor and the flat      *)
(* script extract_word_images.py): extraction of word/media entries, the   *)
(* EMF conversion chain, and the OCR rename stage.                         *)
(*                                                                         *)
(* File names are sequences of one-character strings, so that formatting   *)
(* (f"{new_name}_{counter}{suffix}") and sanitizing are computed and not   *)
(* assumed.  A path is a record [base, ext] in the one output directory.   *)
(* The file system fs maps each existing path to the content stored there. *)
(***************************************************************************)
EXTENDS Integers, Sequences, FiniteSets, TLC

\* ------------------------------------------------------------------ bounds
\* Largest number of images handed to the rename stage.
MaxImages == 2

\* ------------------------------------------------------- program constants
\* text[:50] in sanitize_filename and in process_image_threaded.
MaxNameLen == 50

\* ------------------------------------------------------------- characters
IllegalChars == {"<", ">", ":", "\"", "/", "\\", "|", "?", "*"}
SpaceChars == {" ", "\t", "\n"}
AsciiWordChars ==
    {"a", "b", "d", "e", "i", "l", "n", "t", "u", "x", "0", "1", "2", "3", "4",
     "5", "6", "7", "8", "9", "_"}
\* Python 3 str patterns are Unicode-aware: \w also matches non-ASCII letters.
UnicodeWordChars == {"é"}

IsIllegal(c) == c \in IllegalChars
IsSpace(c) == c \in SpaceChars
IsWord(c) == c \in AsciiWordChars \cup UnicodeWordChars
\* [^\w\-_] is removed, so \w, "-" and "_" are kept.
IsKept(c) == IsWord(c) \/ c = "-" \/ c = "_"
NotIllegal(c) == ~IsIllegal(c)

\* re.sub(r'\s+', '_', text): every maximal run of whitespace becomes one "_".
RECURSIVE CollapseSpace(_)
CollapseSpace(s) ==
    IF s = <<>> THEN <<>>
    ELSE IF IsSpace(Head(s))
         THEN IF Len(s) > 1 /\ IsSpace(s[2])
              THEN CollapseSpace(Tail(s))
              ELSE <<"_">> \o CollapseSpace(Tail(s))
         ELSE <<Head(s)>> \o CollapseSpace(Tail(s))

RECURSIVE LStrip(_)
LStrip(s) == IF s # <<>> /\ Head(s) = "_" THEN LStrip(Tail(s)) ELSE s

RECURSIVE RStrip(_)
RStrip(s) ==
    IF s # <<>> /\ s[Len(s)] = "_" THEN RStrip(SubSeq(s, 1, Len(s) - 1)) ELSE s

\* A strip that leaves the underscores at both ends.
Strip_None(s) == s

\* text.strip('_')
Strip(s) == RStrip(LStrip(s))

\* text[:n]
Take(s, n) == IF Len(s) <= n THEN s ELSE SubSeq(s, 1, n)

untitled == <<"u", "n", "t", "i", "t", "l", "e", "d">>

\* The three re.sub calls and the strip, common to both sanitizers.
Cleaned(text) ==
    Strip(SelectSeq(CollapseSpace(SelectSeq(text, NotIllegal)), IsKept))

\* utils.sanitize_filename
sanitize_filename(text) ==
    IF Cleaned(text) = <<>> THEN untitled ELSE Take(Cleaned(text), MaxNameLen)

\* The inline copy in process_image_threaded: the fallback is assigned first
\* and the slice is taken afterwards.
InlineSanitize(text) ==
    Take(IF Cleaned(text) = <<>> THEN untitled ELSE Cleaned(text), MaxNameLen)

\* " ".join(result)
RECURSIVE Join(_)
Join(result) ==
    IF result = <<>> THEN <<>>
    ELSE IF Len(result) = 1 THEN Head(result)
         ELSE Head(result) \o <<" ">> \o Join(Tail(result))

Digit(d) == <<"0", "1", "2", "3", "4", "5", "6", "7", "8", "9">>[d + 1]

\* str(counter) inside the f-string
RECURSIVE IntToStr(_)
IntToStr(n) ==
    IF n < 10 THEN <<Digit(n)>> ELSE IntToStr(n \div 10) \o <<Digit(n % 10)>>

\* ------------------------------------------------------------------ paths
Path(base, ext) == [base |-> base, ext |-> ext]

\* original_path.with_name(f"{new_name}{original_path.suffix}")
WithName(p, name) == Path(name, p.ext)

\* original_path.with_name(f"{new_name}_{counter}{original_path.suffix}")
WithNameCounter(p, name, counter) ==
    Path(name \o <<"_">> \o IntToStr(counter), p.ext)

\* emf_path.with_suffix('.png')
WithSuffix(p, ext) == Path(p.base, ext)

OcrSuffixes == {".png", ".jpg", ".jpeg", ".bmp", ".tiff"}

Exists(f, p) == p \in DOMAIN f

\* os.rename on POSIX: the source leaves its path and whatever was stored at
\* the target is replaced; renaming a path onto itself changes nothing.
RenameFile(f, src, dst) ==
    [p \in (DOMAIN f \ {src}) \cup {dst} |-> IF p = dst THEN f[src] ELSE f[p]]

Range(f) == {f[p] : p \in DOMAIN f}

WriteFile(f, p, c) == [q \in DOMAIN f \cup {p} |-> IF q = p THEN c ELSE f[q]]

\* ------------------------------------------------------------------ state
VARIABLES
    form,               \* "package": image_extractor; "flat": extract_word_images.py
    pc,                 \* position of the main thread
    fs,                 \* output directory: existing path -> content
    fs0,                \* fs as it was when the rename stage began (history)
    final_images,       \* process_word_document: final_images
    rename_images,      \* process_word_document: rename_images flag
    images_to_process,  \* process_word_document: images_to_process
    easyocr_reader,     \* ocr.easyocr_reader: "None" or "Reader"
    reader_inits,       \* number of easyocr.Reader objects constructed
    ocr_lock,           \* 0 when free, else the task holding ocr_lock
    task,               \* one record per submitted image (package form) or
                        \* per loop iteration (flat form)
    handled,            \* tasks the main thread has taken from as_completed
    cur,                \* the rename the main thread is working on
    renamed_count,      \* process_word_document: renamed_count
    k,                  \* flat form: index of the loop over final_images
    ocr,                \* what the OCR engine reads in each content: id -> list
    convert_emf,        \* process_word_document: convert_emf flag
    extracted_files,    \* process_word_document: extracted_files
    fs1,                \* fs as it was when extraction returned (history)
    installed,          \* the conversion engines present on the machine
    conv,               \* one record per submitted convert_emf_to_png call
    conv_handled,       \* conversion futures taken from as_completed
    converted_count,    \* process_word_document: converted_count
    docx,               \* the input: "missing", "badzip" or "ok"
    archive,            \* the entries of the archive, in namelist() order
    media_files,        \* extract_images_from_docx: media_files
    idx,                \* extract_images_from_docx: position in media_files
    exit_status,        \* -1 while running, else the status main ends with
    run,                \* 1 in the first run on an input, 2 in the second
    first,              \* what the first run left behind (history)
    arg,                \* the argument of a call of a function made alone
    res                 \* what the call returned; None before the call

renameVars ==
    <<rename_images, images_to_process, easyocr_reader, reader_inits, ocr_lock,
      task, handled, cur, renamed_count, k, ocr>>

convVars ==
    <<convert_emf, extracted_files, fs1, installed, conv, conv_handled,
      converted_count>>

extractVars == <<docx, archive, media_files, idx, exit_status>>

runVars == <<run, first>>

callVars == <<arg, res>>

\* What the rename stage never writes.
outside == <<form, convVars, extractVars, runVars, callVars>>

vars ==
    <<form, pc, fs, fs0, final_images, renameVars, convVars, extractVars,
      runVars, callVars>>

None == [none |-> TRUE]
NoCur == [task |-> 0]

Content(id, fmt) == [id |-> id, fmt |-> fmt]

IdleTask(img) ==
    [img |-> img, pc |-> "start", pix |-> 0, result |-> <<>>, ret |-> None,
     exc |-> "none", moved |-> FALSE]

\* A task that ends by raising: process_image_threaded returns None from its
\* except clause, perform_ocr_and_rename returns image_path from its own.
Raised(t, where) == [t EXCEPT !.pc = "done", !.ret = None, !.exc = where]

\* ------------------------------------------------------------ extraction
\* extraction.py 8-18: MAGIC_NUMBERS, in the order of the dict; bytes are
\* written as numbers.
MAGIC_NUMBERS ==
    << [magic |-> <<137, 80, 78, 71, 13, 10, 26, 10>>, ext |-> ".png"],
       [magic |-> <<255, 216, 255>>, ext |-> ".jpg"],
       [magic |-> <<71, 73, 70, 56, 55, 97>>, ext |-> ".gif"],
       [magic |-> <<71, 73, 70, 56, 57, 97>>, ext |-> ".gif"],
       [magic |-> <<66, 77>>, ext |-> ".bmp"],
       [magic |-> <<77, 77, 0, 42>>, ext |-> ".tiff"],
       [magic |-> <<73, 73, 42, 0>>, ext |-> ".tiff"],
       [magic |-> <<1, 0, 0, 0>>, ext |-> ".emf"],
       [magic |-> <<0, 0, 1, 0>>, ext |-> ".ico"] >>

\* extraction.py 26: header = f.read(32)
HeaderLen == 32

Header(bytes) == Take(bytes, HeaderLen)

\* A comparison that asks for the signature and nothing after it.
StartsWith_Whole(header, magic) == header = magic

\* bytes.startswith
StartsWith(header, magic) ==
    Len(header) >= Len(magic) /\ SubSeq(header, 1, Len(magic)) = magic

\* extraction.py 28-30: the first entry of the table whose key the header
\* starts with; "" when there is none.
RECURSIVE FirstMatch(_, _)
FirstMatch(header, table) ==
    IF table = <<>> THEN ""
    ELSE IF StartsWith(header, Head(table).magic) THEN Head(table).ext
    ELSE FirstMatch(header, Tail(table))

\* A suffix in upper case that goes back as it came.
Lower_Same(ext) == ext

\* str.lower() on a suffix
Lower(ext) ==
    CASE ext = ".PNG" -> ".png"
      [] ext = ".EMF" -> ".emf"
      [] ext = ".WMF" -> ".wmf"
      [] ext = ".BIN" -> ".bin"
      [] OTHER -> ext

\* A sniffer whose except clause turns a metafile suffix into the metafile
\* tag.
Sniff_Normalizing(bytes, suffix, readable) ==
    IF readable /\ FirstMatch(Header(bytes), MAGIC_NUMBERS) # ""
    THEN FirstMatch(Header(bytes), MAGIC_NUMBERS)
    ELSE IF Lower(suffix) = ".emf" \/ Lower(suffix) = ".wmf" THEN ".emf"
    ELSE Lower(suffix)

\* extraction.py 24-39 on the bytes and the suffix of a file.  readable says
\* that the file can be opened and read; when it cannot, the except clause
\* answers with the lower-cased suffix.
Sniff(bytes, suffix, readable) ==
    IF ~readable THEN Lower(suffix)
    ELSE IF FirstMatch(Header(bytes), MAGIC_NUMBERS) # ""
         THEN FirstMatch(Header(bytes), MAGIC_NUMBERS)
    ELSE IF Lower(suffix) = ".emf" \/ Lower(suffix) = ".wmf" THEN ".emf"
    ELSE Lower(suffix)

\* A content's fmt names the bytes the file begins with: a key of the table,
\* "none" for bytes that match no key, "empty" for a file of length zero.
BytesOf(fmt) ==
    CASE fmt = "png" -> MAGIC_NUMBERS[1].magic \o <<0>>
      [] fmt = "jpg" -> MAGIC_NUMBERS[2].magic \o <<0>>
      [] fmt = "gif87a" -> MAGIC_NUMBERS[3].magic \o <<0>>
      [] fmt = "gif89a" -> MAGIC_NUMBERS[4].magic \o <<0>>
      [] fmt = "bmp" -> MAGIC_NUMBERS[5].magic \o <<0>>
      [] fmt = "tiff_be" -> MAGIC_NUMBERS[6].magic \o <<0>>
      [] fmt = "tiff_le" -> MAGIC_NUMBERS[7].magic \o <<0>>
      [] fmt = "emf" -> MAGIC_NUMBERS[8].magic \o <<0>>
      [] fmt = "ico" -> MAGIC_NUMBERS[9].magic \o <<0>>
      [] fmt = "empty" -> <<>>
      [] OTHER -> <<60, 63>>

MagicExt(fmt) == FirstMatch(Header(BytesOf(fmt)), MAGIC_NUMBERS)

HasMagic(fmt) == MagicExt(fmt) # ""

\* extraction.py 20-39: get_file_extension on a path of the directory; a path
\* at which no file exists cannot be opened.
get_file_extension(f, p, readable) ==
    IF Exists(f, p)
    THEN Sniff(BytesOf(f[p].fmt), p.ext, readable)
    ELSE Sniff(<<>>, p.ext, FALSE)

\* An archive entry: whether its name starts with word/media/, whether it
\* lies in a directory below word/media/, its base name and suffix, and the
\* signature of its bytes.
Entry(media, nested, base, ext, fmt) ==
    [media |-> media, nested |-> nested, base |-> base, ext |-> ext, fmt |-> fmt]

\* extraction.py 53
MediaFiles(entries) == SelectSeq(entries, LAMBDA e : e.media)

\* extraction.py 66-68: target_path = output_dir / Path(file).name
TargetPath(e) == Path(e.base, e.ext)

\* extraction.py 63-71: extract and shutil.move put the entry's bytes at
\* target_path, replacing a file that is there.
Moved(f, e, id) == WriteFile(f, TargetPath(e), Content(id, e.fmt))

\* extraction.py 73-75
FinalPath(f, e, id) ==
    WithSuffix(TargetPath(e), get_file_extension(Moved(f, e, id), TargetPath(e), TRUE))

\* extraction.py 77-78: target_path.rename(final_path) when the two differ
Extracted(f, e, id) ==
    IF TargetPath(e) # FinalPath(f, e, id)
    THEN RenameFile(Moved(f, e, id), TargetPath(e), FinalPath(f, e, id))
    ELSE Moved(f, e, id)

\* main.py 148-152: main() ends with status 1 when the path does not exist,
\* and calls process_word_document otherwise.
Main ==
    /\ form = "package"
    /\ pc = "main"
    /\ IF docx = "missing"
       THEN /\ exit_status' = 1
            /\ pc' = "exited"
       ELSE /\ exit_status' = exit_status
            /\ pc' = "extract"
    /\ UNCHANGED <<form, fs, fs0, final_images, renameVars, convVars, docx,
                   archive, media_files, idx, callVars, runVars>>

\* extraction.py 45-59 and 88-93, main.py 29-32: BadZipFile is caught inside
\* extract_images_from_docx, which then returns the empty list; so does an
\* archive without media entries; process_word_document returns on an empty
\* list.
Open ==
    /\ form = "package"
    /\ pc = "extract"
    /\ extracted_files' = <<>>
    /\ IF docx = "badzip"
       THEN /\ pc' = "returned"
            /\ UNCHANGED <<media_files, idx>>
       ELSE /\ media_files' = MediaFiles(archive)
            /\ idx' = 1
            /\ pc' = IF MediaFiles(archive) = <<>> THEN "returned" ELSE "extract_loop"
    /\ UNCHANGED <<form, fs, fs0, final_images, renameVars, convert_emf, fs1,
                   installed, conv, conv_handled, converted_count, docx,
                   archive, exit_status, callVars, runVars>>

\* extraction.py 61-83 and 90-93: one entry.  ok = FALSE is an entry whose
\* extraction raises (unreadable bytes, a failing write): the except clause
\* ends the loop and the list built so far is returned.
ExtractEntry ==
    /\ form = "package"
    /\ pc = "extract_loop"
    /\ idx <= Len(media_files)
    /\ \E ok \in BOOLEAN :
        IF ok
        THEN /\ fs' = Extracted(fs, media_files[idx], idx)
             /\ extracted_files' =
                    Append(extracted_files, FinalPath(fs, media_files[idx], idx))
             /\ idx' = idx + 1
             /\ pc' = pc
        ELSE /\ pc' = IF extracted_files = <<>> THEN "returned" ELSE "convert_stage"
             /\ UNCHANGED <<fs, extracted_files, idx>>
    /\ fs1' = fs'
    /\ UNCHANGED <<form, fs0, final_images, renameVars, convert_emf, installed,
                   conv, conv_handled, converted_count, docx, archive,
                   media_files, exit_status, callVars, runVars>>

\* extraction.py 85-86 and 93, main.py 31-34: the loop is over; the list is
\* returned and process_word_document goes on to the conversion stage.
ExtractReturn ==
    /\ form = "package"
    /\ pc = "extract_loop"
    /\ idx > Len(media_files)
    /\ pc' = "convert_stage"
    /\ UNCHANGED <<form, fs, fs0, final_images, renameVars, convVars,
                   extractVars, callVars, runVars>>

\* main.py 153-161: process_word_document has returned (after the summary, at
\* line 32 or at line 94), main returns and the interpreter ends with 0.
MainReturn ==
    /\ form = "package"
    /\ pc \in {"complete", "returned"}
    /\ exit_status' = 0
    /\ pc' = "exited"
    /\ UNCHANGED <<form, fs, fs0, final_images, renameVars, convVars, docx,
                   archive, media_files, idx, callVars, runVars>>

\* ------------------------------------------------- conversion stage
\* conversion.py 11
PngPath(emf) == WithSuffix(emf, ".png")

\* The file an engine writes: a rendering of the metafile, or a file of
\* length zero.
Rendered(f, emf, how) ==
    Content(f[emf].id + 10, IF how = "empty" THEN "empty" ELSE "png")

\* The effect of one engine run on the directory: "wrote" and "empty" leave a
\* file at png_path, every other outcome leaves the directory as it is.
AfterEngine(f, emf, how) ==
    IF how \in {"wrote", "empty"} /\ Exists(f, emf)
    THEN WriteFile(f, PngPath(emf), Rendered(f, emf, how))
    ELSE f

NewConv(emf) ==
    [emf |-> emf, pc |-> "aspose", hung |-> FALSE, log |-> <<>>, out |-> None]

Attempt(engine, outcome) == [engine |-> engine, outcome |-> outcome]

\* An attempt that ends the chain with "return png_path".
Succeed(c, engine) ==
    [c EXCEPT !.pc = "done", !.out = PngPath(c.emf),
              !.log = Append(c.log, Attempt(engine, "ok"))]

\* An attempt that is skipped or fails; the chain goes on at nextpc.
GoOn(c, engine, outcome, nextpc) ==
    [c EXCEPT !.pc = nextpc, !.log = Append(c.log, Attempt(engine, outcome))]

\* What an in-process engine call can do: raise, write the PNG, or return
\* without having written anything.
LibraryOutcomes == {"raise", "wrote", "nothing"}

\* What an external engine process can do once it exits: a non-zero status,
\* or status 0 having written the PNG, an empty file, or nothing.
ExitOutcomes == {"nonzero", "wrote", "empty", "nothing"}

\* An Aspose attempt after whose success the chain goes on to LibreOffice.
AfterAspose_GoesOn(c, present, how) ==
    IF ~present THEN GoOn(c, "aspose", "skipped", "lo_locate")
    ELSE IF how = "raise" THEN GoOn(c, "aspose", "failed", "lo_locate")
    ELSE GoOn(c, "aspose", "ok", "lo_locate")

\* conversion.py 13-25: Aspose.Words.  ImportError -> next method; any other
\* exception -> next method; otherwise png_path is returned at once.
AfterAspose(c, present, how) ==
    IF ~present THEN GoOn(c, "aspose", "skipped", "lo_locate")
    ELSE IF how = "raise" THEN GoOn(c, "aspose", "failed", "lo_locate")
    ELSE Succeed(c, "aspose")

Aspose(j) ==
    /\ pc = "conv_as_completed"
    /\ j \in DOMAIN conv
    /\ conv[j].pc = "aspose"
    /\ \E how \in LibraryOutcomes :
        /\ conv' = [conv EXCEPT ![j] = AfterAspose(conv[j], "aspose" \in installed, how)]
        /\ fs' = IF "aspose" \in installed THEN AfterEngine(fs, conv[j].emf, how) ELSE fs
    /\ UNCHANGED <<form, pc, fs0, final_images, renameVars, extractVars, callVars, runVars,
                   convert_emf,
                   extracted_files, fs1, installed, conv_handled,
                   converted_count>>

\* conversion.py 27-43 and 62-68: the executable is looked up; when none is
\* found the method is not run.  hangs says that the process started at 53
\* (or 75) never exits.
AfterLocate(c, engine, present, hangs, runpc, nextpc) ==
    IF present THEN [c EXCEPT !.pc = runpc, !.hung = hangs]
    ELSE GoOn(c, engine, "skipped", nextpc)

LoLocate(j) ==
    /\ pc = "conv_as_completed"
    /\ j \in DOMAIN conv
    /\ conv[j].pc = "lo_locate"
    /\ \E hangs \in BOOLEAN :
        conv' = [conv EXCEPT ![j] =
                    AfterLocate(conv[j], "libreoffice", "libreoffice" \in installed,
                                hangs, "lo_run", "im_locate")]
    /\ UNCHANGED <<form, pc, fs, fs0, final_images, renameVars, extractVars, callVars, runVars,
                   convert_emf,
                   extracted_files, fs1, installed, conv_handled,
                   converted_count>>

\* conversion.py 53 and 75: subprocess.run(cmd, check=True, ...) has no
\* timeout argument: it returns when the process exits and not before.
RunReturns(c) == ~c.hung

\* A run whose failure ends the chain with None.
AfterRun_GivesUp(c, f, engine, how, nextpc) ==
    IF how # "nonzero" /\ Exists(f, PngPath(c.emf)) THEN Succeed(c, engine)
    ELSE GoOn(c, engine, "failed", "done")

\* conversion.py 53-59 and 75-79: a non-zero status raises CalledProcessError,
\* caught by the except clause; status 0 returns png_path if a file exists
\* at png_path, and falls through to the next method otherwise.
AfterRun(c, f, engine, how, nextpc) ==
    IF how # "nonzero" /\ Exists(f, PngPath(c.emf)) THEN Succeed(c, engine)
    ELSE GoOn(c, engine, "failed", nextpc)

LoRun(j) ==
    /\ pc = "conv_as_completed"
    /\ j \in DOMAIN conv
    /\ conv[j].pc = "lo_run"
    /\ RunReturns(conv[j])
    /\ \E how \in ExitOutcomes :
        /\ fs' = AfterEngine(fs, conv[j].emf, how)
        /\ conv' = [conv EXCEPT ![j] =
                       AfterRun(conv[j], AfterEngine(fs, conv[j].emf, how),
                                "libreoffice", how, "im_locate")]
    /\ UNCHANGED <<form, pc, fs0, final_images, renameVars, extractVars, callVars, runVars,
                   convert_emf,
                   extracted_files, fs1, installed, conv_handled,
                   converted_count>>

\* conversion.py 62-70: 'magick' or 'convert'
ImLocate(j) ==
    /\ pc = "conv_as_completed"
    /\ j \in DOMAIN conv
    /\ conv[j].pc = "im_locate"
    /\ \E hangs \in BOOLEAN :
        conv' = [conv EXCEPT ![j] =
                    AfterLocate(conv[j], "imagemagick", "imagemagick" \in installed,
                                hangs, "im_run", "pillow")]
    /\ UNCHANGED <<form, pc, fs, fs0, final_images, renameVars, extractVars, callVars, runVars,
                   convert_emf,
                   extracted_files, fs1, installed, conv_handled,
                   converted_count>>

\* conversion.py 71-80
ImRun(j) ==
    /\ pc = "conv_as_completed"
    /\ j \in DOMAIN conv
    /\ conv[j].pc = "im_run"
    /\ RunReturns(conv[j])
    /\ \E how \in ExitOutcomes :
        /\ fs' = AfterEngine(fs, conv[j].emf, how)
        /\ conv' = [conv EXCEPT ![j] =
                       AfterRun(conv[j], AfterEngine(fs, conv[j].emf, how),
                                "imagemagick", how, "pillow")]
    /\ UNCHANGED <<form, pc, fs0, final_images, renameVars, extractVars, callVars, runVars,
                   convert_emf,
                   extracted_files, fs1, installed, conv_handled,
                   converted_count>>

\* conversion.py 82-93: Pillow.  A failing import and a failing open or save
\* are both swallowed, and then "Failed to convert" is printed and None is
\* returned.
AfterPillow(c, present, how) ==
    IF ~present
    THEN [GoOn(c, "pillow", "skipped", "done") EXCEPT !.out = None]
    ELSE IF how = "raise"
         THEN [GoOn(c, "pillow", "failed", "done") EXCEPT !.out = None]
         ELSE Succeed(c, "pillow")

Pillow(j) ==
    /\ pc = "conv_as_completed"
    /\ j \in DOMAIN conv
    /\ conv[j].pc = "pillow"
    /\ \E how \in LibraryOutcomes :
        /\ conv' = [conv EXCEPT ![j] = AfterPillow(conv[j], "pillow" \in installed, how)]
        /\ fs' = IF "pillow" \in installed THEN AfterEngine(fs, conv[j].emf, how) ELSE fs
    /\ UNCHANGED <<form, pc, fs0, final_images, renameVars, extractVars, callVars, runVars,
                   convert_emf,
                   extracted_files, fs1, installed, conv_handled,
                   converted_count>>

\* main.py 42
EmfFiles(files) == SelectSeq(files, LAMBDA p : p.ext = ".emf")

\* A stage that converts whatever the flag says.
RunsConversion_Always(flag, files) == EmfFiles(files) # <<>>

\* main.py 40 and 44: the tasks are submitted when the flag is on and there
\* are metafiles.
RunsConversion(flag, files) == flag /\ EmfFiles(files) # <<>>

\* main.py 36-49 and 65-69: with the flag on and metafiles present, one task
\* per metafile is submitted; otherwise every extracted file goes to
\* final_images.
ConvBegin ==
    /\ form = "package"
    /\ pc = "convert_stage"
    /\ IF RunsConversion(convert_emf, extracted_files)
       THEN /\ conv' = [j \in 1..Len(EmfFiles(extracted_files)) |->
                           NewConv(EmfFiles(extracted_files)[j])]
            /\ final_images' = <<>>
            /\ pc' = "conv_as_completed"
       ELSE /\ final_images' = extracted_files
            /\ pc' = "add_rest"
            /\ conv' = conv
    /\ converted_count' = 0
    /\ conv_handled' = {}
    /\ UNCHANGED <<form, fs, fs0, renameVars, extractVars, callVars, runVars,
                   convert_emf, extracted_files,
                   fs1, installed>>

\* A collection that drops the metafile no engine could convert.
AfterResult_Dropped(final, emf, out) ==
    IF out # None THEN Append(final, out) ELSE final

\* main.py 54-62: a path is appended when the call returned one; the metafile
\* itself is appended when it returned None or raised.
AfterResult(final, emf, out) ==
    IF out # None THEN Append(final, out) ELSE Append(final, emf)

ConvCollect(j) ==
    /\ form = "package"
    /\ pc = "conv_as_completed"
    /\ j \in DOMAIN conv
    /\ j \notin conv_handled
    /\ conv[j].pc = "done"
    /\ conv_handled' = conv_handled \cup {j}
    /\ final_images' = AfterResult(final_images, conv[j].emf, conv[j].out)
    /\ converted_count' =
           IF conv[j].out # None THEN converted_count + 1 ELSE converted_count
    /\ UNCHANGED <<form, pc, fs, fs0, renameVars, extractVars, callVars, runVars,
                   convert_emf, extracted_files,
                   fs1, installed, conv>>

\* A loop that ends while futures are still out.
AllHandedOver_Early(done, futures) == TRUE

\* main.py 51 and 105: as_completed is exhausted when it has yielded every
\* future of the dict.
AllHandedOver(done, futures) == done = DOMAIN futures

\* main.py 51 and 63-64: the loop and the with block end when every future
\* was handed over.
ConvJoin ==
    /\ form = "package"
    /\ pc = "conv_as_completed"
    /\ AllHandedOver(conv_handled, conv)
    /\ pc' = "add_rest"
    /\ UNCHANGED <<form, fs, fs0, final_images, renameVars, convVars, extractVars,
                   callVars, runVars>>

\* main.py 71-74: each extracted file that is no metafile and not yet in
\* final_images is appended, tested against the list as it grows.
RECURSIVE AddNonEmf(_, _)
AddNonEmf(final, files) ==
    IF files = <<>> THEN final
    ELSE IF Head(files).ext # ".emf" /\ \A n \in DOMAIN final : final[n] # Head(files)
         THEN AddNonEmf(Append(final, Head(files)), Tail(files))
         ELSE AddNonEmf(final, Tail(files))

AddRest ==
    /\ form = "package"
    /\ pc = "add_rest"
    /\ final_images' = AddNonEmf(final_images, extracted_files)
    /\ pc' = "rename_stage"
    /\ UNCHANGED <<form, fs, fs0, renameVars, convVars, extractVars, callVars, runVars>>

\* ------------------------------------------- rename stage, package form
\* main.py 77-88: the stage is skipped when the flag is off; otherwise the
\* existing files with a raster suffix are selected.
\* A selection that looks at no suffix.
Eligible_AnySuffix(f, p) == Exists(f, p)

Eligible(f, p) == Exists(f, p) /\ p.ext \in OcrSuffixes

FilterImages ==
    /\ form = "package"
    /\ pc = "rename_stage"
    /\ IF ~rename_images
       THEN /\ pc' = "complete"
            /\ UNCHANGED images_to_process
       ELSE LET sel == SelectSeq(final_images, LAMBDA p : Eligible(fs, p))
            IN  /\ images_to_process' = sel
                /\ pc' = IF sel = <<>> THEN "complete" ELSE "init_reader"
    /\ fs0' = fs
    /\ UNCHANGED <<outside, fs, final_images, rename_images, easyocr_reader,
                   reader_inits, ocr_lock, task, handled, cur, renamed_count,
                   k, ocr>>

\* A call that constructs a reader and does not keep it in the global.
ReaderAfterGet_NotKept(ok) == easyocr_reader

\* ocr.get_ocr_reader, lines 8-24: the reader is constructed when the global
\* is None; the construction can raise (GPU and CPU attempt both failing).
\* ok says whether the construction succeeds.
ReaderAfterGet(ok) ==
    IF easyocr_reader = "None" /\ ok THEN "Reader" ELSE easyocr_reader

InitsAfterGet(ok) ==
    IF easyocr_reader = "None" /\ ok THEN reader_inits + 1 ELSE reader_inits

GetRaises(ok) == easyocr_reader = "None" /\ ~ok

\* main.py 89-94: "Initialize reader once"; on an exception the function
\* returns.
InitReader ==
    /\ form = "package"
    /\ pc = "init_reader"
    /\ \E ok \in BOOLEAN :
        /\ easyocr_reader' = ReaderAfterGet(ok)
        /\ reader_inits' = InitsAfterGet(ok)
        /\ pc' = IF GetRaises(ok) THEN "returned" ELSE "submit"
    /\ UNCHANGED <<outside, fs, fs0, final_images, rename_images,
                   images_to_process, ocr_lock, task, handled, cur,
                   renamed_count, k, ocr>>

\* main.py 96-103: the lock is created and every image is submitted.
Submit ==
    /\ form = "package"
    /\ pc = "submit"
    /\ ocr_lock' = 0
    /\ task' = [i \in 1..Len(images_to_process) |->
                   IdleTask(images_to_process[i])]
    /\ pc' = "as_completed"
    /\ UNCHANGED <<outside, fs, fs0, final_images, rename_images,
                   images_to_process, easyocr_reader, reader_inits, handled,
                   cur, renamed_count, k, ocr>>

Running(i) == i \in DOMAIN task /\ pc \in {"as_completed", "probe", "rename"}

\* ocr.py 14: the worker reads the global; no lock is held, so other workers
\* can run between this test and the assignment at 20 or 23.
SeesNone(t) == easyocr_reader = "None"

\* ocr.py 15-23 in a worker: the construction ends, and the object is
\* assigned to the global whatever the global holds by then.
ConstructOutcome(t, ok) ==
    IF ok THEN [t EXCEPT !.pc = "decode"] ELSE Raised(t, "reader")

\* ocr.py 33-34 and 8-24: reader = get_ocr_reader(), in two steps: the test
\* of the global at "start", and the construction with the assignment at
\* "construct" for a worker that found the global to be None.
WorkerGetReader(i) ==
    /\ form = "package"
    /\ Running(i)
    /\ task[i].pc \in {"start", "construct"}
    /\ IF task[i].pc = "start"
       THEN /\ task' = [task EXCEPT ![i].pc =
                           IF SeesNone(task[i]) THEN "construct" ELSE "decode"]
            /\ UNCHANGED <<easyocr_reader, reader_inits>>
       ELSE \E ok \in BOOLEAN :
            /\ easyocr_reader' = IF ok THEN "Reader" ELSE easyocr_reader
            /\ reader_inits' = IF ok THEN reader_inits + 1 ELSE reader_inits
            /\ task' = [task EXCEPT ![i] = ConstructOutcome(task[i], ok)]
    /\ UNCHANGED <<outside, pc, fs, fs0, final_images, rename_images,
                   images_to_process, ocr_lock, handled, cur, renamed_count,
                   k, ocr>>

\* ocr.py 36-52: Image.open, convert, resize, np.array.  The open raises when
\* no file is at the path, and any of the calls can raise on a file that does
\* not decode.
DecodeOutcome(t, ok) ==
    IF Exists(fs, t.img) /\ ok
    THEN [t EXCEPT !.pc = "wait_lock", !.pix = fs[t.img].id]
    ELSE Raised(t, "decode")

WorkerDecode(i) ==
    /\ form = "package"
    /\ Running(i)
    /\ task[i].pc = "decode"
    /\ \E ok \in BOOLEAN : task' = [task EXCEPT ![i] = DecodeOutcome(@, ok)]
    /\ UNCHANGED <<outside, pc, fs, fs0, final_images, rename_images,
                   images_to_process, easyocr_reader, reader_inits, ocr_lock,
                   handled, cur, renamed_count, k, ocr>>

\* A worker that does not wait for the lock.
CanAcquire_NoWait(i) == TRUE

\* ocr.py 55: "with lock:" blocks until the lock is free.
CanAcquire(i) == ocr_lock = 0

WorkerAcquire(i) ==
    /\ form = "package"
    /\ Running(i)
    /\ task[i].pc = "wait_lock"
    /\ CanAcquire(i)
    /\ ocr_lock' = i
    /\ task' = [task EXCEPT ![i].pc = "readtext"]
    /\ UNCHANGED <<outside, pc, fs, fs0, final_images, rename_images,
                   images_to_process, easyocr_reader, reader_inits, handled,
                   cur, renamed_count, k, ocr>>

\* ocr.py 56: reader.readtext(img_np, detail=0) returns the fragments or
\* raises.
ReadOutcome(t, ok, nextpc) ==
    IF ok THEN [t EXCEPT !.pc = nextpc, !.result = ocr[t.pix]]
    ELSE Raised(t, "readtext")

\* A lock that stays with the worker after the call.
LockAfterWith_Kept(holder, ok) == holder

\* A lock that stays with the worker whose call raised.
LockAfterWith_KeptOnRaise(holder, ok) == IF ok THEN 0 ELSE holder

\* ocr.py 55-56: the with statement releases the lock when the block is left,
\* by the end of the call or by an exception.
LockAfterWith(holder, ok) == 0

\* ocr.py 55-56: the call returns or raises, and leaving the with block
\* releases the lock either way.
WorkerReadtext(i) ==
    /\ form = "package"
    /\ Running(i)
    /\ task[i].pc = "readtext"
    /\ \E ok \in BOOLEAN :
        /\ task' = [task EXCEPT ![i] = ReadOutcome(@, ok, "post")]
        /\ ocr_lock' = LockAfterWith(i, ok)
    /\ UNCHANGED <<outside, pc, fs, fs0, final_images, rename_images,
                   images_to_process, easyocr_reader, reader_inits, handled,
                   cur, renamed_count, k, ocr>>

\* ocr.py 58-72: no fragments -> None; else join, sanitize inline and return
\* (image_path, new_name, full_text).
ThreadedReturn(t) ==
    IF t.result = <<>> THEN None
    ELSE [original_path |-> t.img,
          new_name |-> InlineSanitize(Join(t.result)),
          full_text |-> Join(t.result)]

WorkerPost(i) ==
    /\ form = "package"
    /\ Running(i)
    /\ task[i].pc = "post"
    /\ task' = [task EXCEPT ![i] =
                   [task[i] EXCEPT !.pc = "done", !.ret = ThreadedReturn(task[i])]]
    /\ UNCHANGED <<outside, pc, fs, fs0, final_images, rename_images,
                   images_to_process, easyocr_reader, reader_inits, ocr_lock,
                   handled, cur, renamed_count, k, ocr>>

\* A test that lets the name "untitled" through.
WantsRename_AnyName(ret) == ret # None

\* main.py 107-115 and ocr.py 107-112: whether a result leads to a rename.
WantsRename(ret) == ret # None /\ ret.new_name # untitled

StartRename(i, ret) ==
    [task |-> i, original_path |-> ret.original_path, new_name |-> ret.new_name,
     new_path |-> WithName(ret.original_path, ret.new_name), counter |-> 1]

\* A loop that takes the next future while the body still runs.
LoopBodyOver_Anytime(p) == p \in {"as_completed", "probe", "rename"}

\* main.py 105: the for statement asks as_completed for the next future when
\* the body of the iteration before it has ended (106-128 run in the thread
\* that runs the loop).
LoopBodyOver(p) == p = "as_completed"

\* main.py 105-115: as_completed hands over a finished future; a None result
\* and the name "untitled" continue with the next one.
Collect(i) ==
    /\ form = "package"
    /\ LoopBodyOver(pc)
    /\ i \in DOMAIN task
    /\ i \notin handled
    /\ task[i].pc = "done"
    /\ handled' = handled \cup {i}
    /\ IF WantsRename(task[i].ret)
       THEN /\ cur' = StartRename(i, task[i].ret)
            /\ pc' = "probe"
       ELSE UNCHANGED <<cur, pc>>
    /\ UNCHANGED <<outside, fs, fs0, final_images, rename_images,
                   images_to_process, easyocr_reader, reader_inits, ocr_lock,
                   task, renamed_count, k, ocr>>

\* A loop condition that never finds a name taken.
Taken_Never(f, c) == FALSE

\* main.py 119 and ocr.py 117: the loop condition.
Taken(f, c) == Exists(f, c.new_path) /\ c.new_path # c.original_path

\* An iteration that numbers the candidates from 2.
NextCandidate_FromTwo(c) ==
    [c EXCEPT !.new_path = WithNameCounter(c.original_path, c.new_name, c.counter + 1),
              !.counter = c.counter + 1]

\* main.py 120-121 and ocr.py 118-119: one iteration of the loop.
NextCandidate(c) ==
    [c EXCEPT !.new_path = WithNameCounter(c.original_path, c.new_name, c.counter),
              !.counter = c.counter + 1]

\* main.py 118-121
Probe ==
    /\ form = "package"
    /\ pc = "probe"
    /\ IF Taken(fs, cur)
       THEN /\ cur' = NextCandidate(cur)
            /\ pc' = pc
       ELSE /\ pc' = "rename"
            /\ cur' = cur
    /\ UNCHANGED <<outside, fs, fs0, final_images, rename_images,
                   images_to_process, easyocr_reader, reader_inits, ocr_lock,
                   task, handled, renamed_count, k, ocr>>

\* original_path.rename(new_path) raises FileNotFoundError when the source is
\* gone and can raise OSError for reasons outside the program; ok says that
\* the operating system accepts the call.
RenameSucceeds(f, c, ok) == Exists(f, c.original_path) /\ ok

\* main.py 123-128: the rename, counted when it succeeds; an exception is
\* caught by the loop's except clause and the loop goes on.
Rename ==
    /\ form = "package"
    /\ pc = "rename"
    /\ \E ok \in BOOLEAN :
        IF RenameSucceeds(fs, cur, ok)
        THEN /\ fs' = RenameFile(fs, cur.original_path, cur.new_path)
             /\ renamed_count' = renamed_count + 1
             /\ task' = [task EXCEPT ![cur.task].moved = TRUE]
        ELSE /\ task' = [task EXCEPT ![cur.task].exc = "rename"]
             /\ UNCHANGED <<fs, renamed_count>>
    /\ cur' = NoCur
    /\ pc' = "as_completed"
    /\ UNCHANGED <<outside, fs0, final_images, rename_images,
                   images_to_process, easyocr_reader, reader_inits, ocr_lock,
                   handled, k, ocr>>

\* main.py 105, 130-136: the loop ends when every future was handed over; the
\* summary is printed and the function returns.
Finish ==
    /\ form = "package"
    /\ pc = "as_completed"
    /\ AllHandedOver(handled, task)
    /\ pc' = "complete"
    /\ UNCHANGED <<outside, fs, fs0, final_images, renameVars>>

\* --------------------------------------------- rename stage, flat form
\* extract_word_images.py 401-405: the sequential loop over final_images.
SeqBegin ==
    /\ form = "flat"
    /\ pc = "rename_stage"
    /\ fs0' = fs
    /\ IF ~rename_images
       THEN /\ pc' = "complete"
            /\ UNCHANGED <<task, k>>
       ELSE /\ pc' = "seq_loop"
            /\ k' = 1
            /\ task' = [i \in 1..Len(final_images) |-> IdleTask(final_images[i])]
    /\ UNCHANGED <<outside, fs, final_images, rename_images, images_to_process,
                   easyocr_reader, reader_inits, ocr_lock, handled, cur,
                   renamed_count, ocr>>

\* extract_word_images.py 406-415 and 419-425: a path that no longer exists or
\* has no raster suffix is skipped; the others go to perform_ocr_and_rename.
SeqLoop ==
    /\ form = "flat"
    /\ pc = "seq_loop"
    /\ IF k > Len(final_images)
       THEN /\ pc' = "complete"
            /\ UNCHANGED <<k, task>>
       ELSE IF Eligible(fs, final_images[k])
            THEN /\ pc' = "seq_call"
                 /\ UNCHANGED <<k, task>>
            ELSE /\ k' = k + 1
                 /\ task' = [task EXCEPT ![k].pc = "skipped"]
                 /\ pc' = pc
    /\ UNCHANGED <<outside, fs, fs0, final_images, rename_images,
                   images_to_process, easyocr_reader, reader_inits, ocr_lock,
                   handled, cur, renamed_count, ocr>>

\* ocr.py 77-102 (extract_word_images.py 65-88): get_ocr_reader, decode and
\* readtext, run one after the other by the only thread and without a lock.
\* A raise anywhere is caught at 127-129 and image_path is returned.
SeqRecognized(t, okReader, okDecode, okRead) ==
    IF GetRaises(okReader) THEN Raised(t, "reader")
    ELSE IF DecodeOutcome(t, okDecode).pc = "done" THEN Raised(t, "decode")
    ELSE ReadOutcome(DecodeOutcome(t, okDecode), okRead, "post")

SeqCall ==
    /\ form = "flat"
    /\ pc = "seq_call"
    /\ \E okReader \in BOOLEAN, okDecode \in BOOLEAN, okRead \in BOOLEAN :
        /\ easyocr_reader' = ReaderAfterGet(okReader)
        /\ reader_inits' = InitsAfterGet(okReader)
        /\ task' = [task EXCEPT ![k] = SeqRecognized(@, okReader, okDecode, okRead)]
        /\ IF SeqRecognized(task[k], okReader, okDecode, okRead).pc = "done"
           THEN /\ pc' = "seq_loop"
                /\ k' = k + 1
           ELSE /\ pc' = "seq_post"
                /\ k' = k
    /\ UNCHANGED <<outside, fs, fs0, final_images, rename_images,
                   images_to_process, ocr_lock, handled, cur, renamed_count,
                   ocr>>

\* ocr.py 104-112: no fragments -> return image_path; else sanitize_filename,
\* and "untitled" -> return image_path.
SeqReturn(t) ==
    IF t.result = <<>> THEN None
    ELSE [original_path |-> t.img,
          new_name |-> sanitize_filename(Join(t.result)),
          full_text |-> Join(t.result)]

SeqPost ==
    /\ form = "flat"
    /\ pc = "seq_post"
    /\ task' = [task EXCEPT ![k] =
                   [task[k] EXCEPT !.pc = "done", !.ret = SeqReturn(task[k])]]
    /\ IF WantsRename(SeqReturn(task[k]))
       THEN /\ cur' = StartRename(k, SeqReturn(task[k]))
            /\ pc' = "seq_probe"
            /\ k' = k
       ELSE /\ cur' = cur
            /\ pc' = "seq_loop"
            /\ k' = k + 1
    /\ UNCHANGED <<outside, fs, fs0, final_images, rename_images,
                   images_to_process, easyocr_reader, reader_inits, ocr_lock,
                   handled, renamed_count, ocr>>

\* ocr.py 116-119
SeqProbe ==
    /\ form = "flat"
    /\ pc = "seq_probe"
    /\ IF Taken(fs, cur)
       THEN /\ cur' = NextCandidate(cur)
            /\ pc' = pc
       ELSE /\ pc' = "seq_rename"
            /\ cur' = cur
    /\ UNCHANGED <<outside, fs, fs0, final_images, rename_images,
                   images_to_process, easyocr_reader, reader_inits, ocr_lock,
                   task, handled, renamed_count, k, ocr>>

\* ocr.py 121-129 and extract_word_images.py 415-417: the rename; the caller
\* counts it when the returned path differs from the one passed.
SeqRename ==
    /\ form = "flat"
    /\ pc = "seq_rename"
    /\ \E ok \in BOOLEAN :
        IF RenameSucceeds(fs, cur, ok)
        THEN /\ fs' = RenameFile(fs, cur.original_path, cur.new_path)
             /\ renamed_count' =
                    IF cur.new_path # cur.original_path
                    THEN renamed_count + 1 ELSE renamed_count
             /\ task' = [task EXCEPT ![cur.task].moved = TRUE]
        ELSE /\ task' = [task EXCEPT ![cur.task].exc = "rename"]
             /\ UNCHANGED <<fs, renamed_count>>
    /\ cur' = NoCur
    /\ k' = k + 1
    /\ pc' = "seq_loop"
    /\ UNCHANGED <<outside, fs0, final_images, rename_images,
                   images_to_process, easyocr_reader, reader_inits, ocr_lock,
                   handled, ocr>>

\* ------------------------------------------------ the rename stage alone
\* The files the stage can find: images left by extraction and conversion,
\* one of them already carrying the name the OCR text leads to, and a
\* metafile that was not converted.
a_png == Path(<<"a">>, ".png")
b_png == Path(<<"b">>, ".png")
x_png == Path(<<"x">>, ".png")
a_jpg == Path(<<"a">>, ".jpg")
a_emf == Path(<<"a">>, ".emf")

b_emf == Path(<<"b">>, ".emf")

ImagePaths == <<a_png, b_png, x_png, a_jpg>>
KnownPaths == ImagePaths \o <<a_emf, b_emf>>

\* Each file of an initial directory has a content of its own.
IdOf(p) == CHOOSE j \in DOMAIN KnownPaths : KnownPaths[j] = p

\* What readtext can return for an image: nothing, "x", the fragments "x" and
\* "1" (joined "x 1", sanitized "x_1"), and a fragment of symbols only.
OcrResults == {<<>>, <<(<<"x">>)>>, <<(<<"x">>), (<<"1">>)>>, <<(<<"*">>)>>}

NonDecreasing(sel) == \A i \in DOMAIN sel : \A j \in DOMAIN sel : i < j => sel[i] <= sel[j]

FormatOf(p) ==
    CASE p.ext = ".emf" -> "emf"
      [] p.ext = ".jpg" -> "jpg"
      [] OTHER -> "png"

FilesAt(paths) == [p \in paths |-> Content(IdOf(p), FormatOf(p))]

StageFs(sel) == FilesAt({ImagePaths[sel[i]] : i \in DOMAIN sel} \cup {a_emf})

\* The package form starts all tasks at once and takes them in completion
\* order, so the order of final_images plays no part there and one order per
\* selection is enough; the flat form walks the list, so every order is taken.
InitRename ==
    /\ form \in {"package", "flat"}
    /\ rename_images \in BOOLEAN
    /\ \E n \in 1..MaxImages : \E sel \in [1..n -> DOMAIN ImagePaths] :
        /\ form = "package" => NonDecreasing(sel)
        /\ final_images = [i \in 1..n |-> ImagePaths[sel[i]]] \o <<a_emf>>
        /\ fs = StageFs(sel)
        /\ ocr \in [{sel[i] : i \in 1..n} -> OcrResults]
    /\ fs0 = fs
    /\ pc = "rename_stage"
    /\ images_to_process = <<>>
    /\ easyocr_reader = "None"
    /\ reader_inits = 0
    /\ ocr_lock = 0
    /\ task = <<>>
    /\ handled = {}
    /\ cur = NoCur
    /\ renamed_count = 0
    /\ k = 0
    /\ convert_emf = FALSE
    /\ extracted_files = final_images
    /\ fs1 = fs
    /\ installed = {}
    /\ conv = <<>>
    /\ conv_handled = {}
    /\ converted_count = 0
    /\ docx = "ok"
    /\ archive = <<>>
    /\ media_files = <<>>
    /\ idx = 0
    /\ exit_status = -1
    /\ run = 1
    /\ first = None
    /\ arg = None
    /\ res = None

NextRename ==
    \/ FilterImages
    \/ InitReader
    \/ Submit
    \/ \E i \in DOMAIN task : WorkerGetReader(i)
    \/ \E i \in DOMAIN task : WorkerDecode(i)
    \/ \E i \in DOMAIN task : WorkerAcquire(i)
    \/ \E i \in DOMAIN task : WorkerReadtext(i)
    \/ \E i \in DOMAIN task : WorkerPost(i)
    \/ \E i \in DOMAIN task : Collect(i)
    \/ Probe
    \/ Rename
    \/ Finish
    \/ SeqBegin
    \/ SeqLoop
    \/ SeqCall
    \/ SeqPost
    \/ SeqProbe
    \/ SeqRename

Spec == InitRename /\ [][NextRename]_vars

\* ----------------------------------------------------------------- claims
\* Helpers of the formulas below.
Raisers == {i \in DOMAIN task : task[i].exc # "none"}
Movers == {i \in DOMAIN task : task[i].moved}
Proposing(name, ext) ==
    {i \in DOMAIN task :
        /\ task[i].ret # None
        /\ task[i].ret.new_name = name
        /\ task[i].img.ext = ext}
NumberedNames(name, n) == {name \o <<"_">> \o IntToStr(j) : j \in 1..n}
\* Where the file that was at path p when the stage began is now.
NowAt(p) == {q \in DOMAIN fs : fs[q] = fs0[p]}
Kept(p) == Exists(fs, p) /\ fs[p] = fs0[p]
StageOver == pc \in {"complete", "returned"}
NoDuplicate(seq) ==
    \A m \in DOMAIN seq : \A n \in DOMAIN seq : seq[m] = seq[n] => m = n

\* C1: in the package form's rename stage a rename whose target differs from
\* its source is only issued for a target at which no file exists, no step
\* removes a content from the directory, and no step changes the number of
\* files: nothing is overwritten, and two images never share a final path.
C1_NoOverwrite ==
    [][form = "package" =>
        /\ (pc = "rename" /\ fs' # fs) => ~Exists(fs, cur.new_path)
        /\ Range(fs') = Range(fs)
        /\ Cardinality(DOMAIN fs') = Cardinality(DOMAIN fs)]_vars

\* Two images with the same recognized text were both renamed, the second to
\* the suffixed name.
C1_Witness ==
    /\ form = "package"
    /\ pc = "complete"
    /\ Cardinality({task[i].img : i \in Movers}) = 2
    /\ \A i \in Movers : task[i].ret.new_name = <<"x">>
    /\ Exists(fs, Path(<<"x", "_", "1">>, ".png"))

\* C2 (as stated): N images of one extension whose text sanitizes to x, with
\* no x or x_k of that extension present beforehand, end as x, x_1 .. x_(N-1).
FreeBefore(name, ext) ==
    \A p \in DOMAIN fs0 :
        p.ext = ext => p.base \notin {name} \cup NumberedNames(name, 9)

FinalNames(tasks) == {q.base : q \in UNION {NowAt(task[i].img) : i \in tasks}}

C2_Original ==
    (form = "package" /\ pc = "complete") =>
        \A i \in DOMAIN task :
            (task[i].ret # None /\ FreeBefore(task[i].ret.new_name, task[i].img.ext)) =>
                LET name == task[i].ret.new_name
                    same == Proposing(name, task[i].img.ext)
                    n == Cardinality({task[j].img : j \in same})
                IN  FinalNames(same) = {name} \cup NumberedNames(name, n - 1)

\* C2 (amended): x is not "untitled", no image outside the N is given the
\* name x or an x_k during the stage, and of the N images those M whose rename
\* call succeeds end as x, x_1 .. x_(M-1), the others keeping their paths.
NoRival(name, ext) ==
    \A q \in DOMAIN fs :
        (q.ext = ext /\ q.base \in {name} \cup NumberedNames(name, 9)) =>
            \E j \in Proposing(name, ext) : fs[q] = fs0[task[j].img]

C2_ExactNumbering ==
    (form = "package" /\ pc = "complete") =>
        \A i \in DOMAIN task :
            (/\ task[i].ret # None
             /\ task[i].ret.new_name # untitled
             /\ FreeBefore(task[i].ret.new_name, task[i].img.ext)
             /\ NoRival(task[i].ret.new_name, task[i].img.ext)) =>
                LET name == task[i].ret.new_name
                    same == Proposing(name, task[i].img.ext)
                    done == same \cap Movers
                    m == Cardinality({task[j].img : j \in done})
                IN  /\ m > 0 => FinalNames(done) = {name} \cup NumberedNames(name, m - 1)
                    /\ \A j \in same :
                        (\A h \in done : task[h].img # task[j].img) => Kept(task[j].img)

\* Two images proposing x were both renamed: one is x, the other x_1.
C2_Witness ==
    /\ form = "package"
    /\ pc = "complete"
    /\ \E i \in Movers : \E j \in Movers :
        /\ task[i].img # task[j].img
        /\ task[i].img.ext = task[j].img.ext
        /\ task[i].ret.new_name = <<"x">>
        /\ task[j].ret.new_name = <<"x">>
        /\ FreeBefore(<<"x">>, task[i].img.ext)
        /\ NoRival(<<"x">>, task[i].img.ext)

\* C6: at most one task of the package form is inside reader.readtext.
InReadtext == {i \in DOMAIN task : task[i].pc = "readtext"}

C6_SerializedInference == form = "package" => Cardinality(InReadtext) <= 1

\* One task is inside readtext while another waits for the lock.
C6_Witness ==
    /\ form = "package"
    /\ \E i \in DOMAIN task : \E j \in DOMAIN task :
        task[i].pc = "readtext" /\ task[j].pc = "wait_lock"

\* C14: in the package form at most one reader is constructed in a run.
C14_ReaderInitializedOnce == form = "package" => reader_inits <= 1

\* Two workers have both made their call of get_ocr_reader, and one reader
\* was constructed.
C14_Witness ==
    /\ form = "package"
    /\ reader_inits = 1
    /\ \E i \in DOMAIN task : \E j \in DOMAIN task :
        /\ i # j
        /\ task[i].pc \notin {"start", "construct"}
        /\ task[j].pc \notin {"start", "construct"}
        /\ task[i].exc = "none"
        /\ task[j].exc = "none"

\* C7 (as stated): an image whose decoding, recognition or renaming raised is
\* at its original path when the stage is over, and every submitted image was
\* processed and handed over; the stage ends with "complete".
C7_Isolation ==
    (form = "package" /\ StageOver /\ Raisers # {}) =>
        /\ pc = "complete"
        /\ \A i \in DOMAIN task : task[i].pc = "done" /\ i \in handled
        /\ \A i \in Raisers : Kept(task[i].img)

\* C10: a file that is no longer at its original path was moved by a task
\* whose OCR result was non-empty and whose sanitized name was not
\* "untitled"; every other file is at its original path with its content.
RenamingTask(i, p) ==
    /\ task[i].img = p
    /\ task[i].result # <<>>
    /\ task[i].ret # None
    /\ task[i].ret.new_name # untitled

C10_RenameOnlyOnText ==
    \A p \in DOMAIN fs0 :
        Kept(p) \/ \E i \in DOMAIN task : RenamingTask(i, p)

\* A stage that ended with one image left alone for lack of text, one left
\* alone because its text is symbols only, or one renamed.
C10_Witness ==
    /\ pc = "complete"
    /\ \E i \in DOMAIN task : \E j \in DOMAIN task :
        /\ task[i].pc = "done" /\ task[i].ret # None
        /\ task[i].ret.new_name = untitled
        /\ Kept(task[i].img)
        /\ task[j].moved
        /\ ~Kept(task[j].img)

\* An image whose target path was chosen and whose rename has not been made.
Chosen == cur # NoCur

\* A finished task, not yet taken up, that proposes the base name of the
\* image whose target is chosen.
Rivals ==
    {j \in DOMAIN task :
        /\ j # cur.task
        /\ task[j].pc = "done"
        /\ task[j].ret # None
        /\ task[j].ret.new_name = cur.new_name
        /\ task[j].ret.new_name # untitled
        /\ (form = "package" => j \notin handled)}

\* C23 (as stated): in the package form the existence check of an image can
\* fall between the existence check and the rename of another image that
\* proposes the same base name.
C23_Original ==
    (form = "package" /\ Chosen /\ pc = "rename") =>
        \A j \in Rivals : ENABLED Collect(j)

\* C23: in neither form does the existence check of an image fall between
\* the existence check and the rename of another: while a target is chosen no
\* other result is taken up, and the target is free when the rename is made.
C23_ChoiceNotInterleaved ==
    Chosen =>
        /\ \A j \in DOMAIN task : ~ENABLED Collect(j)
        /\ ~ENABLED SeqPost
        /\ pc \in {"rename", "seq_rename"} =>
               \/ cur.new_path \notin DOMAIN fs
               \/ cur.new_path = cur.original_path

\* The target of one image is chosen in the package form while the result of
\* another image with the same base name waits.
C23_Witness ==
    /\ form = "package"
    /\ Chosen
    /\ pc = "rename"
    /\ Rivals # {}

\* The tasks that decode and resize their image, and the task that holds the
\* lock.
Preprocessing == {i \in DOMAIN task : task[i].pc = "decode"}

Holder == {i \in DOMAIN task : ocr_lock = i}

\* C25: the lock is held by a worker that is in the recognition call and by
\* no other: a worker that decodes, waits, sanitizes or has ended does not
\* hold it, and a free lock means that no worker is in the call.
C25_LockOnlyAroundRecognition ==
    form = "package" =>
        /\ \A i \in DOMAIN task : (task[i].pc = "readtext") <=> (i \in Holder)
        /\ ocr_lock # 0 => Holder # {}

\* Two workers decode at the same time with the lock free.
C25_Witness ==
    /\ form = "package"
    /\ Cardinality(Preprocessing) >= 2
    /\ ocr_lock = 0

\* ------------------------------------- the rename stage, threads scheduled
\* The package form with renaming on, for the first images of ImagePaths,
\* each of which reads "x" or nothing.  The threads of the pool and the
\* thread of the loop are scheduled by the operating system: as long as some
\* thread can take a step, a step is taken.  A call to Image.open or to
\* readtext is one step, which returns or raises.
InitLive ==
    /\ InitRename
    /\ form = "package"
    /\ rename_images
    /\ \A i \in 1..(Len(final_images) - 1) : final_images[i] = ImagePaths[i]
    /\ \A id \in DOMAIN ocr : ocr[id] \in {<<>>, <<(<<"x">>)>>}

NextLive ==
    \/ FilterImages
    \/ InitReader
    \/ Submit
    \/ \E i \in DOMAIN task : WorkerGetReader(i)
    \/ \E i \in DOMAIN task : WorkerDecode(i)
    \/ \E i \in DOMAIN task : WorkerAcquire(i)
    \/ \E i \in DOMAIN task : WorkerReadtext(i)
    \/ \E i \in DOMAIN task : WorkerPost(i)
    \/ \E i \in DOMAIN task : Collect(i)
    \/ Probe
    \/ Rename
    \/ Finish

SpecLive == InitLive /\ [][NextLive]_vars /\ WF_vars(NextLive)

\* The stage has ended: process_word_document printed its summary, or
\* returned because no reader could be constructed before any task was
\* submitted.
StageEnded == pc \in {"complete", "returned"}

\* C30: the stage ends, and it ends with every worker task completed and the
\* lock free; and whenever workers wait for the lock or are in the
\* recognition call, a time comes at which every worker is past the call and
\* none holds the lock, whether the calls returned or raised.
C30_WorkersEndStageCompletes ==
    /\ <>(/\ StageEnded
          /\ ocr_lock = 0
          /\ \A i \in DOMAIN task : task[i].pc = "done")
    /\ (\E i \in DOMAIN task : task[i].pc \in {"wait_lock", "readtext"}) ~>
           (\A i \in DOMAIN task : task[i].pc \in {"post", "done"} /\ ocr_lock # i)

\* A worker is in the recognition call after the call of another worker
\* raised while that worker held the lock.
C30_Witness ==
    \E i, j \in DOMAIN task :
        /\ task[i].pc = "done"
        /\ task[i].exc = "readtext"
        /\ task[j].pc = "readtext"
        /\ ocr_lock = j

\* -------------------------------------------- the conversion stage alone
\* Largest number of files extraction hands to the conversion stage.
MaxFiles == 2

Engines == {"aspose", "libreoffice", "imagemagick", "pillow"}

\* Two metafiles and an image carrying the name a conversion writes to.
ConvPaths == <<a_emf, b_emf, a_png>>

InitConv ==
    /\ form = "package"
    /\ convert_emf \in BOOLEAN
    /\ installed \in SUBSET Engines
    /\ \E n \in 1..MaxFiles : \E sel \in [1..n -> DOMAIN ConvPaths] :
        /\ extracted_files = [i \in 1..n |-> ConvPaths[sel[i]]]
        /\ fs = FilesAt({ConvPaths[sel[i]] : i \in 1..n})
    /\ fs1 = fs
    /\ fs0 = fs
    /\ pc = "convert_stage"
    /\ final_images = <<>>
    /\ conv = <<>>
    /\ conv_handled = {}
    /\ converted_count = 0
    /\ rename_images = FALSE
    /\ images_to_process = <<>>
    /\ easyocr_reader = "None"
    /\ reader_inits = 0
    /\ ocr_lock = 0
    /\ task = <<>>
    /\ handled = {}
    /\ cur = NoCur
    /\ renamed_count = 0
    /\ k = 0
    /\ ocr = <<>>
    /\ docx = "ok"
    /\ archive = <<>>
    /\ media_files = <<>>
    /\ idx = 0
    /\ exit_status = -1
    /\ run = 1
    /\ first = None
    /\ arg = None
    /\ res = None

NextConv ==
    \/ ConvBegin
    \/ \E j \in DOMAIN conv : Aspose(j)
    \/ \E j \in DOMAIN conv : LoLocate(j)
    \/ \E j \in DOMAIN conv : LoRun(j)
    \/ \E j \in DOMAIN conv : ImLocate(j)
    \/ \E j \in DOMAIN conv : ImRun(j)
    \/ \E j \in DOMAIN conv : Pillow(j)
    \/ \E j \in DOMAIN conv : ConvCollect(j)
    \/ ConvJoin
    \/ AddRest

SpecConv == InitConv /\ [][NextConv]_vars

\* C3: the attempts of a call are made in the order Aspose.Words,
\* LibreOffice, ImageMagick, Pillow; an engine is reached only after every
\* earlier one was skipped or failed, and a successful attempt is the last
\* one: the call has returned its path.
EngineOrder == <<"aspose", "libreoffice", "imagemagick", "pillow">>

Reached(c) ==
    CASE c.pc = "aspose" -> 0
      [] c.pc \in {"lo_locate", "lo_run"} -> 1
      [] c.pc \in {"im_locate", "im_run"} -> 2
      [] c.pc = "pillow" -> 3
      [] OTHER -> Len(c.log)

C3_OrderedShortCircuit ==
    \A j \in DOMAIN conv :
        LET log == conv[j].log
        IN  /\ Len(log) <= Len(EngineOrder)
            /\ Len(log) = Reached(conv[j])
            /\ \A n \in DOMAIN log :
                /\ log[n].engine = EngineOrder[n]
                /\ n < Len(log) => log[n].outcome \in {"skipped", "failed"}
                /\ log[n].outcome = "ok" =>
                       conv[j].pc = "done" /\ conv[j].out = PngPath(conv[j].emf)

\* ImageMagick succeeded after Aspose.Words was skipped and LibreOffice failed.
C3_Witness ==
    \E j \in DOMAIN conv :
        /\ conv[j].pc = "done"
        /\ Len(conv[j].log) = 3
        /\ conv[j].log[1].outcome = "skipped"
        /\ conv[j].log[2].outcome = "failed"
        /\ conv[j].log[3].outcome = "ok"

\* C4: a call all of whose four attempts were skipped or failed returned
\* None, the metafile is at emf_path with the content extraction gave it, and
\* when the stage is over its path is in final_images.
AllFailed(c) ==
    /\ c.pc = "done"
    /\ Len(c.log) = Len(EngineOrder)
    /\ \A n \in DOMAIN c.log : c.log[n].outcome \in {"skipped", "failed"}

InSeq(x, seq) == \E n \in DOMAIN seq : seq[n] = x

C4_AllFailKeepsOriginal ==
    \A j \in DOMAIN conv :
        AllFailed(conv[j]) =>
            /\ conv[j].out = None
            /\ Exists(fs, conv[j].emf)
            /\ fs[conv[j].emf] = fs1[conv[j].emf]
            /\ j \in conv_handled => InSeq(conv[j].emf, final_images)
            /\ pc \in {"add_rest", "rename_stage"} => j \in conv_handled

\* The stage is over, and a metafile whose engines were partly missing and
\* partly failing is in final_images.
C4_Witness ==
    /\ pc = "rename_stage"
    /\ \E j \in DOMAIN conv :
        /\ AllFailed(conv[j])
        /\ \E n \in DOMAIN conv[j].log : conv[j].log[n].outcome = "failed"
        /\ \E n \in DOMAIN conv[j].log : conv[j].log[n].outcome = "skipped"
        /\ InSeq(conv[j].emf, final_images)

\* The steps of a call at which the n-th engine of the order is being tried.
EnginePcs ==
    << {"aspose"}, {"lo_locate", "lo_run"}, {"im_locate", "im_run"}, {"pillow"} >>

\* C22: an attempt is logged as skipped exactly when its engine is not
\* installed, and as failed when the engine raised or exited non-zero; after
\* a skipped or failed attempt at one of the first three engines the call is
\* at the next engine or beyond it, and a call that returned None has tried
\* all four.
C22_FailureMovesOn ==
    \A j \in DOMAIN conv :
        LET c == conv[j]
        IN  /\ \A n \in DOMAIN c.log :
                /\ c.log[n].outcome = "skipped" <=> EngineOrder[n] \notin installed
                /\ (c.log[n].outcome \in {"skipped", "failed"} /\ n < Len(EngineOrder)) =>
                       \/ Len(c.log) > n
                       \/ c.pc \in EnginePcs[n + 1]
            /\ (c.pc = "done" /\ c.out = None) =>
                   {c.log[n].engine : n \in DOMAIN c.log} = Engines

\* LibreOffice exited without a PNG, ImageMagick is not installed, and Pillow
\* was tried after both.
C22_Witness ==
    \E j \in DOMAIN conv :
        /\ Len(conv[j].log) = 4
        /\ conv[j].log[2] = Attempt("libreoffice", "failed")
        /\ conv[j].log[3] = Attempt("imagemagick", "skipped")

\* C8 (as stated): a call that waits for an engine process can always go on:
\* when the process does not exit, the attempt is given up.
C8_HungAttemptAbandoned ==
    \A j \in DOMAIN conv :
        conv[j].pc \in {"lo_run", "im_run"} => ENABLED (LoRun(j) \/ ImRun(j))

\* The number of places at which a sequence holds x.
Count(x, seq) == Cardinality({n \in DOMAIN seq : seq[n] = x})

\* The conversion task started for the n-th extracted file, a metafile: tasks
\* are started in the order of emf_files.
TaskOf(n) == Cardinality({m \in 1..n : extracted_files[m].ext = ".emf"})

Converted(n) ==
    /\ convert_emf
    /\ extracted_files[n].ext = ".emf"
    /\ conv[TaskOf(n)].out # None

\* What stands for the n-th extracted file in the claim.
Representative(n) ==
    IF Converted(n) THEN conv[TaskOf(n)].out ELSE extracted_files[n]

ConversionOver == pc = "rename_stage"

\* C12: when the conversion stage is over, final_images holds exactly one
\* entry per extracted file: the converted PNG of a metafile whose conversion
\* succeeded, and the file's own path otherwise; stated for extracted files
\* that all have different paths.
C12_EachImageOnce ==
    (ConversionOver /\ NoDuplicate(extracted_files)) =>
        \A q \in {Representative(n) : n \in DOMAIN extracted_files}
                 \cup {final_images[n] : n \in DOMAIN final_images} :
            Count(q, final_images) =
                Cardinality({n \in DOMAIN extracted_files : Representative(n) = q})

NonEmptyAt(f, p) == Exists(f, p) /\ f[p].fmt # "empty"

\* C13: a conversion task that returned a path left a file of non-zero length
\* at that path; stated for metafiles that all have different paths, so that
\* no other task writes to the path.
C13_SuccessHasOutput ==
    NoDuplicate(extracted_files) =>
        \A j \in DOMAIN conv :
            conv[j].out # None => NonEmptyAt(fs, conv[j].out)

\* The extracted files that are no metafiles.
ExtractedImages ==
    {extracted_files[n] : n \in {m \in DOMAIN extracted_files : extracted_files[m].ext # ".emf"}}

\* C28 (as stated): during and after the conversion stage every extracted
\* file that is no metafile is at its path with the content extraction gave
\* it, and when the stage is over its path is in final_images.
C28_ConversionKeepsOthers ==
    \A p \in ExtractedImages :
        /\ p \in DOMAIN fs
        /\ fs[p] = fs1[p]
        /\ ConversionOver => InSeq(p, final_images)

\* The conversion tasks that ended with a path.
Succeeded == {j \in DOMAIN conv : conv[j].pc = "done" /\ conv[j].out # None}

\* During and after every call the metafile is at emf_path with the content
\* extraction gave it.
MetafileUntouched ==
    \A j \in DOMAIN conv :
        /\ conv[j].emf \in DOMAIN fs
        /\ fs[conv[j].emf] = fs1[conv[j].emf]

\* Once its result was taken up, a converted metafile is in final_images by
\* the returned path and not by its own.
OnlyPngCarried ==
    \A j \in Succeeded :
        j \in conv_handled =>
            /\ InSeq(conv[j].out, final_images)
            /\ ~InSeq(conv[j].emf, final_images)

\* C31 (as stated): no call deletes, moves or modifies the file at emf_path;
\* after a call that returned a path the metafile and a file at the returned
\* path are both on disk, and only the returned path goes to final_images;
\* stated for metafiles that all have different paths.
C31_MetafileKeptPngAdded ==
    NoDuplicate(extracted_files) =>
        /\ MetafileUntouched
        /\ \A j \in Succeeded :
               conv[j].emf \in DOMAIN fs /\ conv[j].out \in DOMAIN fs
        /\ OnlyPngCarried

\* The parts of C31 that do not ask for the file at the returned path.
C31_HoldsApartFromOutput ==
    NoDuplicate(extracted_files) => (MetafileUntouched /\ OnlyPngCarried)

\* ------------------------------------------------------- the whole run
MaxEntries == 2

\* The entries an archive is made of: an image under its own name, the same
\* base name with a suffix that does not fit its bytes, a metafile, an entry
\* in a directory below word/media/ with the base name and suffix of the first
\* but other bytes, a second image, and an entry outside word/media/.
EntryKinds ==
    << Entry(TRUE, FALSE, <<"a">>, ".png", "png"),
       Entry(TRUE, FALSE, <<"a">>, ".bin", "png"),
       Entry(TRUE, FALSE, <<"a">>, ".emf", "emf"),
       Entry(TRUE, TRUE, <<"a">>, ".png", "jpg"),
       Entry(TRUE, FALSE, <<"b">>, ".png", "png"),
       Entry(FALSE, FALSE, <<"d">>, ".xml", "none") >>

\* The n-th entry of an archive; an archive lists every name once, so the
\* second occurrence of a kind is the entry of that name one directory down.
Archives(n) == [1..n -> DOMAIN EntryKinds]

\* Every image of the run reads "x".
OcrOfRun == [id \in (1..MaxEntries) \cup (11..(MaxEntries + 10)) |-> <<(<<"x">>)>>]

InitMain ==
    /\ form = "package"
    /\ docx \in {"missing", "badzip", "ok"}
    /\ \E n \in 1..MaxEntries : \E sel \in Archives(n) :
        archive = [i \in 1..n |-> [EntryKinds[sel[i]] EXCEPT !.nested = @ \/ (\E h \in 1..(i - 1) : sel[h] = sel[i])]]
    /\ convert_emf \in BOOLEAN
    /\ rename_images \in BOOLEAN
    /\ installed \in {{}, Engines}
    /\ ocr = OcrOfRun
    /\ pc = "main"
    /\ exit_status = -1
    /\ run = 1
    /\ first = None
    /\ arg = None
    /\ res = None
    /\ fs = <<>>
    /\ fs0 = fs
    /\ fs1 = fs
    /\ media_files = <<>>
    /\ idx = 0
    /\ extracted_files = <<>>
    /\ final_images = <<>>
    /\ conv = <<>>
    /\ conv_handled = {}
    /\ converted_count = 0
    /\ images_to_process = <<>>
    /\ easyocr_reader = "None"
    /\ reader_inits = 0
    /\ ocr_lock = 0
    /\ task = <<>>
    /\ handled = {}
    /\ cur = NoCur
    /\ renamed_count = 0
    /\ k = 0

NextMain ==
    \/ Main
    \/ Open
    \/ ExtractEntry
    \/ ExtractReturn
    \/ ConvBegin
    \/ \E j \in DOMAIN conv : Aspose(j)
    \/ \E j \in DOMAIN conv : LoLocate(j)
    \/ \E j \in DOMAIN conv : LoRun(j)
    \/ \E j \in DOMAIN conv : ImLocate(j)
    \/ \E j \in DOMAIN conv : ImRun(j)
    \/ \E j \in DOMAIN conv : Pillow(j)
    \/ \E j \in DOMAIN conv : ConvCollect(j)
    \/ ConvJoin
    \/ AddRest
    \/ FilterImages
    \/ InitReader
    \/ Submit
    \/ \E i \in DOMAIN task : WorkerGetReader(i)
    \/ \E i \in DOMAIN task : WorkerDecode(i)
    \/ \E i \in DOMAIN task : WorkerAcquire(i)
    \/ \E i \in DOMAIN task : WorkerReadtext(i)
    \/ \E i \in DOMAIN task : WorkerPost(i)
    \/ \E i \in DOMAIN task : Collect(i)
    \/ Probe
    \/ Rename
    \/ Finish
    \/ MainReturn

SpecMain == InitMain /\ [][NextMain]_vars

\* C5: main() ends with a status other than 0 when the document is missing or
\* is not a valid archive, and with 0 on every other run that ends.
C5_ExitStatus ==
    pc = "exited" => (exit_status # 0 <=> docx \in {"missing", "badzip"})

\* The extraction has just returned a list that is not empty.
ExtractionReturned == pc = "convert_stage"

\* C9: when the extraction returns, every path of the returned list names an
\* existing file whose suffix is the one the sniffer finds for its bytes.
C9_ReturnedPathsFit ==
    ExtractionReturned =>
        \A n \in DOMAIN extracted_files :
            /\ Exists(fs, extracted_files[n])
            /\ extracted_files[n].ext =
                   get_file_extension(fs, extracted_files[n], TRUE)

\* The conversion stage of a run that extracted something is over.
AfterConversion ==
    /\ extracted_files # <<>>
    /\ pc \notin {"main", "extract", "extract_loop", "convert_stage",
                  "conv_as_completed"}

\* C20: with rename_images off no reader is constructed, no recognition task
\* is started and no file is renamed; with convert_emf off no conversion task
\* is started, every extracted metafile is in final_images under its own
\* path, and the metafiles in the directory stay as extraction left them.
C20_DisabledStageIdle ==
    /\ ~rename_images =>
        /\ reader_inits = 0
        /\ easyocr_reader = "None"
        /\ task = <<>>
        /\ renamed_count = 0
        /\ pc \in {"complete", "exited"} => fs = fs0
    /\ ~convert_emf =>
        /\ conv = <<>>
        /\ converted_count = 0
        /\ AfterConversion =>
            \A n \in DOMAIN extracted_files :
                extracted_files[n].ext = ".emf" =>
                    InSeq(extracted_files[n], final_images)
        /\ \A p \in DOMAIN fs1 :
            p.ext = ".emf" => Exists(fs, p) /\ fs[p] = fs1[p]

\* A run with both flags off ended with a metafile and an image in
\* final_images.
C20_Witness ==
    /\ pc = "exited"
    /\ exit_status = 0
    /\ ~rename_images
    /\ ~convert_emf
    /\ \E n \in DOMAIN final_images : final_images[n].ext = ".emf"
    /\ \E n \in DOMAIN final_images : final_images[n].ext = ".png"
    /\ fs = fs1

RenameStagePcs ==
    {"rename_stage", "init_reader", "submit", "as_completed", "probe", "rename",
     "complete"}

\* C21: while the rename stage runs or a recognition task exists, every
\* conversion task has ended and was handed over; and when the run reports
\* completion, every recognition task has ended and was handed over.
C21_JoinBarrier ==
    /\ (task # <<>> \/ pc \in RenameStagePcs) =>
        \A j \in DOMAIN conv : conv[j].pc = "done" /\ j \in conv_handled
    /\ (pc = "complete" \/ (pc = "exited" /\ task # <<>>)) =>
        \A i \in DOMAIN task : task[i].pc = "done" /\ i \in handled

\* A run with a conversion task and two recognition tasks reported
\* completion.
C21_Witness ==
    /\ pc = "complete"
    /\ Len(conv) >= 1
    /\ Len(task) >= 2

\* The conversion tasks and the recognition tasks that have not ended.
RunningConv == {j \in DOMAIN conv : conv[j].pc # "done"}

RunningOcr == {i \in DOMAIN task : task[i].pc # "done"}

\* C24 (as stated): no two running tasks have the same source path, and the
\* file the loop is about to rename is the source of no running task.
C24_ExclusiveOwnership ==
    /\ \A i, j \in RunningConv : i # j => conv[i].emf # conv[j].emf
    /\ \A i, j \in RunningOcr : i # j => task[i].img # task[j].img
    /\ pc = "rename" =>
           \A i \in RunningOcr : i # cur.task => task[i].img # cur.original_path

\* The same for runs whose extraction returned every path once.
C24_HoldsWithoutDuplicates ==
    NoDuplicate(extracted_files) => C24_ExclusiveOwnership

\* The tasks whose image was handed to recognition: every task of the package
\* form, and in the flat form the tasks whose call was made.
Submitted ==
    {i \in DOMAIN task : form = "package" \/ task[i].pc \notin {"start", "skipped"}}

\* C26: every image handed to recognition has one of the suffixes .png, .jpg,
\* .jpeg, .bmp, .tiff, so never .emf, and in the package form it existed when
\* the images were selected.
C26_OnlyRasterSubmitted ==
    \A i \in Submitted :
        /\ task[i].img.ext \in OcrSuffixes
        /\ task[i].img.ext # ".emf"
        /\ form = "package" => task[i].img \in DOMAIN fs0

\* Recognition tasks run while a metafile that no engine converted is in
\* final_images and on disk.
C26_Witness ==
    /\ Submitted # {}
    /\ convert_emf
    /\ \E n \in DOMAIN final_images :
        /\ final_images[n].ext = ".emf"
        /\ final_images[n] \in DOMAIN fs

\* The extraction has returned after its loop went through every media
\* entry.
ExtractedAll == ExtractionReturned /\ idx > Len(media_files)

\* C29 (as stated): an extraction that went through all k media entries
\* returns k paths, no two of them equal, and the file at the n-th path holds
\* the bytes of the n-th entry.
C29_OneFilePerEntry ==
    ExtractedAll =>
        /\ Len(extracted_files) = Len(media_files)
        /\ \A m, n \in DOMAIN extracted_files :
               m # n => extracted_files[m] # extracted_files[n]
        /\ \A n \in DOMAIN extracted_files :
               /\ extracted_files[n] \in DOMAIN fs
               /\ fs[extracted_files[n]] = Content(n, media_files[n].fmt)

\* The same for archives whose media entries have pairwise different base
\* names.
C29_HoldsForDifferentNames ==
    (\A m, n \in DOMAIN media_files : m # n => media_files[m].base # media_files[n].base)
        => C29_OneFilePerEntry

\* ------------------------------------------- the rename stage, run twice
\* main.py 138-158: the program is started a second time on the same input:
\* the directory is as it was when the first run's rename stage began, the
\* new process has no reader yet, and what the first run left is remembered.
Rerun ==
    /\ form = "package"
    /\ pc = "complete"
    /\ run = 1
    /\ run' = 2
    /\ first' = [fs |-> fs, clean |-> \A i \in DOMAIN task : task[i].exc = "none"]
    /\ fs' = fs0
    /\ pc' = "rename_stage"
    /\ images_to_process' = <<>>
    /\ easyocr_reader' = "None"
    /\ reader_inits' = 0
    /\ ocr_lock' = 0
    /\ task' = <<>>
    /\ handled' = {}
    /\ cur' = NoCur
    /\ renamed_count' = 0
    /\ UNCHANGED <<form, fs0, final_images, rename_images, k, ocr, convVars,
                   extractVars, callVars>>

InitRerun == InitRename /\ form = "package" /\ rename_images

NextRerun ==
    \/ FilterImages
    \/ InitReader
    \/ Submit
    \/ \E i \in DOMAIN task : WorkerGetReader(i)
    \/ \E i \in DOMAIN task : WorkerDecode(i)
    \/ \E i \in DOMAIN task : WorkerAcquire(i)
    \/ \E i \in DOMAIN task : WorkerReadtext(i)
    \/ \E i \in DOMAIN task : WorkerPost(i)
    \/ \E i \in DOMAIN task : Collect(i)
    \/ Probe
    \/ Rename
    \/ Finish
    \/ Rerun

SpecRerun == InitRerun /\ [][NextRerun]_vars

\* C11: two runs of the package form on the same directory and the same OCR
\* results, in neither of which a task raised, leave every image under the
\* same file name.
C11_SameNamesEveryRun ==
    (/\ run = 2
     /\ pc = "complete"
     /\ first.clean
     /\ Raisers = {}
     /\ NoDuplicate(images_to_process)) => fs = first.fs

\* ------------------------------------------------- functions called alone
\* The state of the pipeline while a function is called on its own.
NoPipeline ==
    /\ form = "package"
    /\ fs = <<>>
    /\ fs0 = <<>>
    /\ fs1 = <<>>
    /\ final_images = <<>>
    /\ rename_images = FALSE
    /\ images_to_process = <<>>
    /\ easyocr_reader = "None"
    /\ reader_inits = 0
    /\ ocr_lock = 0
    /\ task = <<>>
    /\ handled = {}
    /\ cur = NoCur
    /\ renamed_count = 0
    /\ k = 0
    /\ ocr = <<>>
    /\ convert_emf = FALSE
    /\ extracted_files = <<>>
    /\ installed = {}
    /\ conv = <<>>
    /\ conv_handled = {}
    /\ converted_count = 0
    /\ docx = "ok"
    /\ archive = <<>>
    /\ media_files = <<>>
    /\ idx = 0
    /\ exit_status = -1
    /\ run = 1
    /\ first = None

pipelineVars ==
    <<form, fs, fs0, final_images, renameVars, convVars, extractVars, runVars>>

\* ------------------------------------------------- the type sniffer alone
MaxTail == 1

\* Bytes that follow the beginning of a file.
TailBytes == {0, 66}

Tails == UNION {[1..m -> TailBytes] : m \in 0..MaxTail}

\* The beginnings: every signature of the table and every shorter piece of
\* one, the empty piece included.
Beginnings ==
    UNION {{SubSeq(MAGIC_NUMBERS[n].magic, 1, m) : m \in 0..Len(MAGIC_NUMBERS[n].magic)} :
              n \in DOMAIN MAGIC_NUMBERS}

SniffedBytes == {b \o t : b \in Beginnings, t \in Tails}

SniffedSuffixes == {".png", ".PNG", ".jpg", ".emf", ".WMF", ".bin", ".BIN", ""}

InitSniff ==
    /\ NoPipeline
    /\ pc = "sniff"
    /\ arg \in [bytes : SniffedBytes, suffix : SniffedSuffixes, readable : BOOLEAN]
    /\ res = None

\* One call of get_file_extension on a file with the bytes and the suffix of
\* arg.
CallSniff ==
    /\ pc = "sniff"
    /\ res' = [value |-> Sniff(arg.bytes, arg.suffix, arg.readable)]
    /\ pc' = "sniffed"
    /\ UNCHANGED <<pipelineVars, arg>>

NextSniff == CallSniff

SpecSniff == InitSniff /\ [][NextSniff]_vars

BeginsWith(bytes, sig) == \E m \in 0..Len(bytes) : SubSeq(bytes, 1, m) = sig

Signatures == {MAGIC_NUMBERS[n].magic : n \in DOMAIN MAGIC_NUMBERS}

\* C15: for a readable file whose bytes begin with a signature of the table,
\* get_file_extension returns the tag of that signature, whatever the suffix.
C15_SignatureGivesTag ==
    (pc = "sniffed" /\ arg.readable) =>
        \A n \in DOMAIN MAGIC_NUMBERS :
            BeginsWith(arg.bytes, MAGIC_NUMBERS[n].magic) =>
                res.value = MAGIC_NUMBERS[n].ext

\* A file named with the suffix .bin that holds a PNG signature and more
\* bytes was sniffed as .png.
C15_Witness ==
    /\ pc = "sniffed"
    /\ arg.readable
    /\ arg.suffix = ".bin"
    /\ BeginsWith(arg.bytes, MAGIC_NUMBERS[1].magic)
    /\ Len(arg.bytes) > Len(MAGIC_NUMBERS[1].magic)
    /\ res.value = ".png"

\* The suffixes that are no tag of the table and no metafile suffix, with
\* their lower-case forms.
UnrecognizedSuffixes == {".bin", ".BIN", ""}

LowerCaseOf(suffix) == IF suffix = ".BIN" THEN ".bin" ELSE suffix

NoSignature(bytes) == \A sig \in Signatures : ~BeginsWith(bytes, sig)

\* C16 (as stated): a readable file with no known signature and an
\* unrecognized suffix is given the tag "unknown".
C16_Original ==
    (/\ pc = "sniffed"
     /\ arg.readable
     /\ NoSignature(arg.bytes)
     /\ arg.suffix \in UnrecognizedSuffixes) => res.value = "unknown"

\* C16 (amended): a readable file with no known signature and an unrecognized
\* suffix is given that suffix in lower case, the empty string when the name
\* has no suffix.
C16_FallsBackToSuffix ==
    (/\ pc = "sniffed"
     /\ arg.readable
     /\ NoSignature(arg.bytes)
     /\ arg.suffix \in UnrecognizedSuffixes) => res.value = LowerCaseOf(arg.suffix)

\* A file with the suffix .BIN and bytes that begin like a PNG signature
\* without being one was given .bin.
C16_Witness ==
    /\ pc = "sniffed"
    /\ arg.readable
    /\ NoSignature(arg.bytes)
    /\ Len(arg.bytes) > 1
    /\ arg.suffix = ".BIN"
    /\ res.value = ".bin"

\* The lower-case form of each suffix a call is made with.
SuffixInLowerCase(suffix) ==
    CASE suffix = ".PNG" -> ".png"
      [] suffix = ".WMF" -> ".wmf"
      [] suffix = ".BIN" -> ".bin"
      [] OTHER -> suffix

\* C27 (as stated): for a file that cannot be opened or read the call returns
\* a result that stands for an unknown format.
C27_Original ==
    (pc = "sniffed" /\ ~arg.readable) => res.value = "unknown"

\* C27 (amended): every call returns a value; for a file that cannot be
\* opened or read it is the suffix of the path in lower case, whatever the
\* bytes and also for a metafile suffix; and the directory is as it was.
C27_UnreadableGivesSuffix ==
    pc = "sniffed" =>
        /\ res # None
        /\ ~arg.readable => res.value = SuffixInLowerCase(arg.suffix)
        /\ fs = fs0

\* A file that cannot be read, with a PNG signature and the suffix .WMF, was
\* given .wmf.
C27_Witness ==
    /\ pc = "sniffed"
    /\ ~arg.readable
    /\ arg.suffix = ".WMF"
    /\ BeginsWith(arg.bytes, MAGIC_NUMBERS[1].magic)
    /\ res.value = ".wmf"

\* --------------------------------------------------- the sanitizers alone
MaxText == 3

\* The characters a text ends with: a letter, an underscore, a space, a
\* symbol the first pattern removes, a hyphen, and a letter outside ASCII.
TextChars == {"a", "_", " ", "*", "-", "é"}

Texts == UNION {[1..m -> TextChars] : m \in 0..MaxText}

RECURSIVE Repeat(_, _)
Repeat(c, n) == IF n = 0 THEN <<>> ELSE <<c>> \o Repeat(c, n - 1)

\* The lengths of the run of letters a text begins with: none, and the two
\* lengths up to the limit of utils.py 20.
HeadLengths == {0, MaxNameLen - 1, MaxNameLen}

\* utils.py 3-20 (the same function in extract_word_images.py 41-63) and the
\* inline copy at ocr.py 63-70.
Sanitizers == {"utils", "inline"}

Apply(fn, text) ==
    IF fn = "utils" THEN sanitize_filename(text) ELSE InlineSanitize(text)

InitSanitize ==
    /\ NoPipeline
    /\ pc = "sanitize"
    /\ arg \in [fn : Sanitizers,
                text : {Repeat("a", n) \o t : n \in HeadLengths, t \in Texts}]
    /\ res = None

\* The sanitizer is called on the text.
CallSanitize ==
    /\ pc = "sanitize"
    /\ res' = [value |-> Apply(arg.fn, arg.text)]
    /\ pc' = "sanitized"
    /\ UNCHANGED <<pipelineVars, arg>>

\* The sanitizer is called on what it returned.
CallSanitizeAgain ==
    /\ pc = "sanitized"
    /\ res' = [value |-> res.value, again |-> Apply(arg.fn, res.value)]
    /\ pc' = "sanitized_again"
    /\ UNCHANGED <<pipelineVars, arg>>

NextSanitize ==
    \/ CallSanitize
    \/ CallSanitizeAgain

SpecSanitize == InitSanitize /\ [][NextSanitize]_vars

Sanitized == pc \in {"sanitized", "sanitized_again"}

\* C17: sanitizing what the sanitizer returned gives the same string.
C17_Idempotent == pc = "sanitized_again" => res.again = res.value

AllIn(text, chars) == \A n \in DOMAIN text : text[n] \in chars

\* Characters that are neither letters nor digits nor whitespace.
SymbolChars == {"*", "-", "_"}

AllowedChars == {"a", "b", "d", "e", "i", "l", "n", "t", "u", "x", "-", "_"}

\* C19: the sanitizer returns a non-empty string of at most 50 characters,
\* all of them ASCII letters, digits, underscores or hyphens.
C19_SafeName ==
    Sanitized =>
        /\ res.value # <<>>
        /\ Len(res.value) <= 50
        /\ AllIn(res.value, AllowedChars)

====
